---------------------------- MODULE Spec2Model ----------------------------
(***************************************************************************)
(* A model of the two utilities of the repository:                         *)
(*   src/web_scraper.py    WebScraper   (retry loop, preview, save)        *)
(*   src/text_analyzer.py  TextAnalyzer (analyze_text, search_content)     *)
(* Texts are sequences of one-character strings, so that lower-casing,     *)
(* substring tests, slicing and word-boundary matching are computed.       *)
(***************************************************************************)
EXTENDS Integers, Sequences, FiniteSets, TLC

VARIABLES
    pc,           \* get_website_text_content: position in the call
    max_retries,  \* get_website_text_content: its argument
    attempt,      \* get_website_text_content: the loop variable
    downloaded,   \* get_website_text_content: what the fetch returned
    events,       \* get_website_text_content: fetches, extractions, sleeps so far
    ret,          \* get_website_text_content: the value returned
    text,         \* the text handed to the analyzer or to the preview
    call,         \* the last call of a one-shot operation, with its arguments
    result,       \* what that call returned, or what it raised
    now,          \* the clock, in seconds
    out_dir,      \* what is at ./scraped_content: "absent", "dir" or "file"
    files         \* the regular files that were written: path -> content

retryVars == <<pc, max_retries, attempt, downloaded, events, ret>>
textVars == <<text, call, result>>
fsVars == <<now, out_dir, files>>

vars == <<retryVars, textVars, fsVars>>

(***************************************************************************)
(* Bounds of the model.                                                    *)
(***************************************************************************)
MaxRetries == 4
MaxThemeWords == 3
MaxBaseWords == 22
MaxExtraWords == 2
MaxSearchWords == 4
PadLen == 101
MaxPreviewLen == 10
MaxNegativeLength == 2
MaxTime == 1

(***************************************************************************)
(* Python values.                                                          *)
(***************************************************************************)
None == "<None>"
Raise == "<raise>"

\* no call of a one-shot operation yet, and nothing returned; a call is kept
\* with its arguments, the time it was made and the file content it replaced
NoCall ==
    [op |-> "none", term |-> <<>>, max_length |-> 0, filename |-> <<>>, text |-> <<>>,
     time |-> 0, replaced |-> <<>>]
NoResult == [kind |-> "none"]


(***************************************************************************)
(* Python strings: a string is a sequence of one-character strings.        *)
(***************************************************************************)
UpperChars == <<"A","B","C","D","E","F","G","H","I","J","K","L","M","N","O","P","Q","R","S","T","U","V","W","X","Y","Z">>
LowerChars == <<"a","b","c","d","e","f","g","h","i","j","k","l","m","n","o","p","q","r","s","t","u","v","w","x","y","z">>
DigitChars == <<"0","1","2","3","4","5","6","7","8","9">>
WhitespaceChars == {" ", "\n", "\t"}

Range(s) == {s[i] : i \in DOMAIN s}

\* one character of str.lower()
LowerChar(c) ==
    IF \E i \in DOMAIN UpperChars : UpperChars[i] = c
       THEN LowerChars[CHOOSE i \in DOMAIN UpperChars : UpperChars[i] = c]
       ELSE c

\* str.lower()
Lower(s) == [i \in 1..Len(s) |-> LowerChar(s[i])]

\* one character of str.isalnum()
IsAlnumChar(c) == c \in Range(UpperChars) \cup Range(LowerChars) \cup Range(DigitChars)

\* str.isalnum(): every character alphanumeric and at least one character
IsAlnum(s) == Len(s) > 0 /\ \A i \in DOMAIN s : IsAlnumChar(s[i])

\* keyword in text
Contains(text_, kw) ==
    \E i \in 0..(Len(text_) - Len(kw)) : SubSeq(text_, i + 1, i + Len(kw)) = kw

\* text[start:end] for 0 <= start, end (0-based, end exclusive, clipped)
Slice(s, start, end) ==
    SubSeq(s, start + 1, IF end > Len(s) THEN Len(s) ELSE end)

RECURSIVE Ascending(_)
Ascending(S) ==
    IF S = {} THEN <<>>
    ELSE LET m == CHOOSE x \in S : \A y \in S : x <= y
         IN <<m>> \o Ascending(S \ {m})

\* str.split(): the maximal runs of non-whitespace characters
PySplit(s) ==
    LET first == Ascending({i \in DOMAIN s :
                    s[i] \notin WhitespaceChars /\ (i = 1 \/ s[i-1] \in WhitespaceChars)})
        last == Ascending({i \in DOMAIN s :
                    s[i] \notin WhitespaceChars /\ (i = Len(s) \/ s[i+1] \in WhitespaceChars)})
    IN [k \in DOMAIN first |-> SubSeq(s, first[k], last[k])]

RECURSIVE SumSeq(_)
SumSeq(s) == IF s = <<>> THEN 0 ELSE s[1] + SumSeq(Tail(s))

(***************************************************************************)
(* Python numbers: the quotient n / d is kept exact, as a fraction in      *)
(* lowest terms (the rounding of floating point is not modelled).          *)
(***************************************************************************)
RECURSIVE GCD(_, _)
GCD(a, b) == IF b = 0 THEN a ELSE GCD(b, a % b)

Frac(n, d) == LET g == GCD(n, d) IN [num |-> n \div g, den |-> d \div g]
Zero == [num |-> 0, den |-> 1]

(***************************************************************************)
(* TextAnalyzer.__init__: the theme table and the stopword set.            *)
(***************************************************************************)
ThemeNames == <<"community", "convenience", "location", "amenities", "lifestyle", "sustainability">>

Themes ==
    [community |-> <<
        <<"c","o","m","m","u","n","i","t","y">>,
        <<"s","o","c","i","a","l">>,
        <<"s","h","a","r","e","d">>,
        <<"t","o","g","e","t","h","e","r">>,
        <<"c","o","n","n","e","c","t">>,
        <<"i","n","t","e","r","a","c","t">>,
        <<"n","e","i","g","h","b","o","r","s">>>>,
     convenience |-> <<
        <<"c","o","n","v","e","n","i","e","n","t">>,
        <<"e","a","s","y">>,
        <<"s","i","m","p","l","e">>,
        <<"q","u","i","c","k">>,
        <<"f","a","s","t">>,
        <<"e","f","f","i","c","i","e","n","t">>,
        <<"h","a","s","s","l","e","-","f","r","e","e">>>>,
     location |-> <<
        <<"l","o","c","a","t","i","o","n">>,
        <<"a","r","e","a">>,
        <<"n","e","i","g","h","b","o","r","h","o","o","d">>,
        <<"d","i","s","t","r","i","c","t">>,
        <<"z","o","n","e">>,
        <<"r","e","g","i","o","n">>,
        <<"p","l","a","c","e">>>>,
     amenities |-> <<
        <<"a","m","e","n","i","t","i","e","s">>,
        <<"f","e","a","t","u","r","e","s">>,
        <<"f","a","c","i","l","i","t","i","e","s">>,
        <<"s","e","r","v","i","c","e","s">>,
        <<"u","t","i","l","i","t","i","e","s">>,
        <<"i","n","c","l","u","d","e","d">>>>,
     lifestyle |-> <<
        <<"l","i","f","e","s","t","y","l","e">>,
        <<"l","i","v","i","n","g">>,
        <<"e","x","p","e","r","i","e","n","c","e">>,
        <<"q","u","a","l","i","t","y">>,
        <<"c","o","m","f","o","r","t">>,
        <<"e","n","j","o","y">>,
        <<"r","e","l","a","x">>>>,
     sustainability |-> <<
        <<"s","u","s","t","a","i","n","a","b","l","e">>,
        <<"e","c","o","-","f","r","i","e","n","d","l","y">>,
        <<"g","r","e","e","n">>,
        <<"e","n","v","i","r","o","n","m","e","n","t","a","l">>,
        <<"e","n","e","r","g","y">>,
        <<"r","e","c","y","c","l","e">>>>]

\* a part of stopwords.words('english'), the corpus of the NLTK collaborator
StopWords ==
    {<<"t","h","e">>,
     <<"a">>,
     <<"i","s">>,
     <<"a","n","d">>,
     <<"o","f">>,
     <<"t","o">>,
     <<"i","t">>,
     <<"i","n">>}

(***************************************************************************)
(* TextAnalyzer._analyze_themes                                            *)
(***************************************************************************)
ThemeMatchesByFrequency(t, keywords) ==
    SumSeq([k \in DOMAIN keywords |->
              Cardinality({i \in 0..(Len(t) - Len(keywords[k])) :
                             SubSeq(t, i + 1, i + Len(keywords[k])) = keywords[k]})])
\* matches = sum(1 for keyword in keywords if keyword in text)
ThemeMatches(t, keywords) ==
    Cardinality({k \in DOMAIN keywords : Contains(t, keywords[k])})

Unnormalized(score, total) == Frac(score, 1)
\* score / total_theme_matches when total_theme_matches > 0, else the raw count
Normalize(score, total) == IF total > 0 THEN Frac(score, total) ELSE Frac(score, 1)

AnalyzeThemes(t) ==
    LET matches == [th \in Range(ThemeNames) |-> ThemeMatches(t, Themes[th])]
        total_theme_matches ==
            SumSeq([i \in DOMAIN ThemeNames |-> matches[ThemeNames[i]]])
    IN [th \in Range(ThemeNames) |-> Normalize(matches[th], total_theme_matches)]

(***************************************************************************)
(* TextAnalyzer._analyze_language_patterns                                 *)
(***************************************************************************)
CountChar(t, c) == Cardinality({i \in DOMAIN t : t[i] = c})

SentenceEnd == {".", "!", "?"}

\* len(re.findall(r'[.!?]+', text)): the maximal runs of sentence terminators
SentenceCount(t) ==
    Cardinality({i \in DOMAIN t :
                   t[i] \in SentenceEnd /\ (i = 1 \/ t[i-1] \notin SentenceEnd)})

\* where a match of \n\s*\n that starts at p ends (\s* is greedy), 0 if none
BreakEnd(t, p) ==
    LET ends == {q \in (p+1)..Len(t) :
                    t[q] = "\n" /\ \A r \in (p+1)..q : t[r] \in WhitespaceChars}
    IN IF t[p] = "\n" /\ ends # {}
          THEN CHOOSE q \in ends : \A r \in ends : r <= q
          ELSE 0

\* len(re.findall(r'\n\s*\n', text)): leftmost, greedy, non-overlapping
RECURSIVE ParagraphBreaks(_, _)
ParagraphBreaks(t, i) ==
    LET starts == {p \in i..Len(t) : BreakEnd(t, p) > 0}
    IN IF starts = {} THEN 0
       ELSE LET p == CHOOSE p \in starts : \A q \in starts : p <= q
            IN 1 + ParagraphBreaks(t, BreakEnd(t, p) + 1)

AnalyzeLanguagePatterns(t) ==
    [question_count |-> CountChar(t, "?"),
     exclamation_count |-> CountChar(t, "!"),
     sentence_count |-> SentenceCount(t),
     paragraph_count |-> ParagraphBreaks(t, 1) + 1,
     average_sentence_length |->
        IF SentenceCount(t) > 0 THEN Frac(Len(PySplit(t)), SentenceCount(t)) ELSE Zero]

(***************************************************************************)
(* collections.Counter and Counter.most_common                             *)
(***************************************************************************)
\* Counter(words): the distinct words in first-seen order, each with its count
Counter(words) ==
    LET first == Ascending({i \in DOMAIN words : \A j \in 1..(i-1) : words[j] # words[i]})
    IN [k \in DOMAIN first |->
          [word |-> words[first[k]],
           count |-> Cardinality({i \in DOMAIN words : words[i] = words[first[k]]})]]

RemoveAt(s, i) == SubSeq(s, 1, i - 1) \o SubSeq(s, i + 1, Len(s))

\* most_common(n): sorted by count, largest first, equal counts in the order
\* of the Counter (heapq.nlargest is stable); the first n of them
RECURSIVE MostCommon(_, _)
MostCommon(items, n) ==
    IF n <= 0 \/ items = <<>> THEN <<>>
    ELSE LET i == CHOOSE i \in DOMAIN items :
                    /\ \A j \in DOMAIN items : items[j].count <= items[i].count
                    /\ \A j \in 1..(i-1) : items[j].count < items[i].count
         IN <<items[i]>> \o MostCommon(RemoveAt(items, i), n - 1)

(***************************************************************************)
(* TextAnalyzer.analyze_text                                               *)
(***************************************************************************)
TopN == 20

\* word_tokenize of the NLTK collaborator.  On the texts of this model (words
\* and free-standing punctuation marks, separated by white space) its tokens
\* are the white-space separated pieces.
WordTokenize(t) == PySplit(t)

KeepAllWords(word) == IsAlnum(word)
\* word.isalnum() and word not in self.stop_words
KeepWord(word) == IsAlnum(word) /\ word \notin StopWords

FilteredWords(words) == SelectSeq(words, KeepWord)

TokenizerError == "tokenizer failed"

analyze_text(t, tokenizer_raises) ==
    IF t = <<>>
       THEN [kind |-> "error", error |-> "No text provided for analysis"]
    ELSE IF tokenizer_raises
       THEN [kind |-> "error", error |-> "Error analyzing text: " \o TokenizerError]
    ELSE LET words == WordTokenize(Lower(t))
             word_count == Len(words)
             word_freq == Counter(FilteredWords(words))
         IN [kind |-> "analysis",
             statistics |->
                [total_words |-> word_count,
                 unique_words |-> Cardinality(Range(words)),
                 average_word_length |->
                    IF word_count > 0
                       THEN Frac(SumSeq([i \in DOMAIN words |-> Len(words[i])]), word_count)
                       ELSE Zero],
             themes |-> AnalyzeThemes(Lower(t)),
             language_patterns |-> AnalyzeLanguagePatterns(t),
             top_words |-> MostCommon(word_freq, TopN)]

(***************************************************************************)
(* TextAnalyzer.search_content                                             *)
(***************************************************************************)
ContextRadius == 100

\* \w of the re module
IsWordChar(c) == IsAlnumChar(c) \/ c = "_"

\* \b at offset p (0-based) of t: a word character on exactly one side
WordBoundary(t, p) ==
    (p > 0 /\ IsWordChar(t[p])) # (p < Len(t) /\ IsWordChar(t[p + 1]))

\* r'\b' + re.escape(search_term) + r'\b' with re.IGNORECASE, tried at offset p
MatchAt(t, term, p) ==
    /\ p + Len(term) <= Len(t)
    /\ \A j \in 1..Len(term) : LowerChar(t[p + j]) = LowerChar(term[j])
    /\ WordBoundary(t, p)
    /\ WordBoundary(t, p + Len(term))

\* re.finditer: the leftmost match at or after pos, then on from its end
RECURSIVE FindIterFrom(_, _, _)
FindIterFrom(starts, width, pos) ==
    LET later == {p \in starts : p >= pos}
    IN IF later = {} THEN <<>>
       ELSE LET p == CHOOSE p \in later : \A q \in later : p <= q
            IN <<p>> \o FindIterFrom(starts, width, p + width)

\* the start offsets of list(re.finditer(...)), for a term that is not empty
FindIter(t, term) ==
    FindIterFrom({p \in 0..(Len(t) - Len(term)) : MatchAt(t, term, p)}, Len(term), 0)

Max(a, b) == IF a >= b THEN a ELSE b
Min(a, b) == IF a <= b THEN a ELSE b

NoMatchMessage(term) ==
    <<"N","o"," ","e","x","a","c","t"," ","m","a","t","c","h","e","s"," ","f","o","u","n","d"," ","f","o","r"," ","'">> \o term \o <<"'">>

search_content(t, search_term) ==
    IF t = <<>> \/ search_term = <<>>
       THEN [kind |-> "error", error |-> "No text or search term provided"]
    ELSE LET matches == FindIter(t, search_term)
         IN IF matches = <<>>
               THEN [kind |-> "message", message |-> NoMatchMessage(search_term)]
               ELSE [kind |-> "matches",
                     total_matches |-> Len(matches),
                     contexts |->
                        [i \in DOMAIN matches |->
                           LET start == Max(0, matches[i] - ContextRadius)
                               end == Min(Len(t), matches[i] + Len(search_term) + ContextRadius)
                           IN [context |-> Slice(t, start, end),
                               position |-> matches[i]]]]

(***************************************************************************)
(* WebScraper.get_text_preview                                             *)
(***************************************************************************)
NoContentAvailable == <<"N","o"," ","c","o","n","t","e","n","t"," ","a","v","a","i","l","a","b","l","e">>
TruncationMarker == <<".", ".", ".">>

\* text[:m]: the first m characters, or all but the last -m when m < 0
PyPrefix(s, m) ==
    IF m >= 0 THEN SubSeq(s, 1, Min(m, Len(s)))
              ELSE SubSeq(s, 1, Max(Len(s) + m, 0))

IsLongerOrEqual(t, max_length) == Len(t) >= max_length
\* len(text) > max_length
IsLonger(t, max_length) == Len(t) > max_length

get_text_preview(t, max_length) ==
    IF t = <<>> THEN NoContentAvailable
    ELSE IF IsLonger(t, max_length)
            THEN PyPrefix(t, max_length) \o TruncationMarker
            ELSE t

(***************************************************************************)
(* WebScraper.save_text_to_file, with the file system it writes to.        *)
(***************************************************************************)
NoContentToSave == <<"N","o"," ","c","o","n","t","e","n","t"," ","t","o"," ","s","a","v","e">>
OutputDir == <<"s","c","r","a","p","e","d","_","c","o","n","t","e","n","t">>

\* a lone surrogate code point, which UTF-8 cannot encode
Surrogate == "<U+D800>"

RECURSIVE IntToChars(_)
\* str(n) for n >= 0
IntToChars(n) ==
    IF n < 10 THEN <<DigitChars[n + 1]>>
    ELSE IntToChars(n \div 10) \o <<DigitChars[(n % 10) + 1]>>

\* f"scraped_content_{int(time.time())}.txt"
DefaultFilename(time) == <<"s","c","r","a","p","e","d","_","c","o","n","t","e","n","t","_">> \o IntToChars(time) \o <<".","t","x","t">>

\* str(output_dir / filename): an absolute filename replaces the directory
PathJoin(dir, filename) ==
    IF filename[1] = "/" THEN filename ELSE dir \o <<"/">> \o filename

Appended(old, t) == old \o t
\* open(file_path, "w") ... f.write(text): the content of the file afterwards
Written(old, t) == t

Put(fs, path, content) ==
    [p \in DOMAIN fs \cup {path} |-> IF p = path THEN content ELSE fs[p]]

Returned(v) == [kind |-> "returned", value |-> v]
Raised(e) == [kind |-> "raised", error |-> e]

SaveTextToFile(t, filename_arg, open_fails) ==
    LET filename == IF filename_arg = <<>> THEN DefaultFilename(now) ELSE filename_arg
        file_path == PathJoin(OutputDir, filename)
        old == IF file_path \in DOMAIN files THEN files[file_path] ELSE <<>>
    IN /\ call' = [NoCall EXCEPT !.op = "save_text_to_file",
                                 !.filename = filename_arg, !.text = t, !.time = now,
                                 !.replaced = IF file_path \in DOMAIN files
                                                 THEN <<files[file_path]>> ELSE <<>>]
       /\ UNCHANGED <<text, now>>
       /\ IF t = <<>>
             THEN \* if not text: return "No content to save"
                  /\ result' = Returned(NoContentToSave)
                  /\ UNCHANGED <<out_dir, files>>
          ELSE IF out_dir = "file"
             THEN \* output_dir.mkdir(exist_ok=True) on a regular file
                  /\ result' = Raised("FileExistsError")
                  /\ UNCHANGED <<out_dir, files>>
          ELSE IF open_fails
             THEN \* open(file_path, "w") refused by the file system
                  /\ result' = Raised("PermissionError")
                  /\ out_dir' = "dir"
                  /\ UNCHANGED files
          ELSE IF Surrogate \in Range(t)
             THEN \* f.write(text) cannot encode the text; the file is left empty
                  /\ result' = Raised("UnicodeEncodeError")
                  /\ out_dir' = "dir"
                  /\ files' = Put(files, file_path, <<>>)
          ELSE /\ result' = Returned(file_path)
               /\ out_dir' = "dir"
               /\ files' = Put(files, file_path, Written(old, t))

(***************************************************************************)
(* The one-shot operations: the text is typed, then an operation is called *)
(* on it; call and result hold the last call and what it returned.         *)
(***************************************************************************)

TextInit ==
    /\ text = <<>>
    /\ call = NoCall
    /\ result = NoResult

FsIdle ==
    /\ now = 0
    /\ out_dir = "absent"
    /\ files = <<>>

\* one more word of the text, after a blank
TypeWord(w) ==
    /\ call = NoCall
    /\ text' = (IF text = <<>> THEN w ELSE text \o <<" ">> \o w)
    /\ UNCHANGED <<call, result>>

AnalyzeText ==
    /\ \E tokenizer_raises \in BOOLEAN :
         result' = analyze_text(text, tokenizer_raises)
    /\ call' = [NoCall EXCEPT !.op = "analyze_text"]
    /\ UNCHANGED text

(***************************************************************************)
(* WebScraper.get_website_text_content, one action per step of the loop.   *)
(* The log calls change nothing the caller sees and are left out.          *)
(***************************************************************************)
Pages == {"<html>"}
ExtractedTexts == {"text A", "text B"}

\* what trafilatura.fetch_url can do: return nothing, return a page, raise
FetchOutcomes == {""} \cup Pages \cup {Raise}
\* what trafilatura.extract can do: return nothing, return text, raise
ExtractOutcomes == {""} \cup ExtractedTexts \cup {Raise}

Event(op, res, secs) == [op |-> op, attempt |-> attempt, res |-> res, secs |-> secs]

WaitTimeConstant(a) == 1
WaitTime(a) == a + 1

RetriesLeftOffByOne(a, n) == a < n
RetriesLeft(a, n) == a < n - 1

Call ==
    /\ pc \in {"idle", "done"}
    /\ \E n \in 0..MaxRetries :
        /\ max_retries' = n
        /\ attempt' = 0
        /\ downloaded' = None
        /\ events' = <<>>
        /\ ret' = None
        /\ pc' = "for"

\* for attempt in range(max_retries): ... return None
ForLoop ==
    /\ pc = "for"
    /\ IF attempt < max_retries
          THEN pc' = "fetch" /\ ret' = ret
          ELSE pc' = "done" /\ ret' = None
    /\ UNCHANGED <<max_retries, attempt, downloaded, events>>

\* downloaded = trafilatura.fetch_url(...); if downloaded: ...; except Exception
Fetch ==
    /\ pc = "fetch"
    /\ \E out \in FetchOutcomes :
        /\ events' = Append(events, Event("fetch", out, 0))
        /\ IF out \in Pages
              THEN downloaded' = out /\ pc' = "extract"
              ELSE downloaded' = (IF out = Raise THEN downloaded ELSE out)
                   /\ pc' = "failed"
    /\ UNCHANGED <<max_retries, attempt, ret>>

ExtractNoReturn ==
    /\ pc = "extract"
    /\ \E out \in ExtractOutcomes :
        /\ events' = Append(events, Event("extract", out, 0))
        /\ IF out \in ExtractedTexts
              THEN ret' = out /\ pc' = "failed"
              ELSE ret' = ret /\ pc' = "failed"
    /\ UNCHANGED <<max_retries, attempt, downloaded>>

\* text = trafilatura.extract(downloaded, ...); if text: return text
Extract ==
    /\ pc = "extract"
    /\ \E out \in ExtractOutcomes :
        /\ events' = Append(events, Event("extract", out, 0))
        /\ IF out \in ExtractedTexts
              THEN ret' = out /\ pc' = "done"
              ELSE ret' = ret /\ pc' = "failed"
    /\ UNCHANGED <<max_retries, attempt, downloaded>>

\* if attempt < max_retries - 1: (sleep) ; then the next iteration
Backoff ==
    /\ pc = "failed"
    /\ IF RetriesLeft(attempt, max_retries)
          THEN pc' = "sleep" /\ attempt' = attempt
          ELSE pc' = "for" /\ attempt' = attempt + 1
    /\ UNCHANGED <<max_retries, downloaded, events, ret>>

\* wait_time = attempt + 1; time.sleep(wait_time)
Sleep ==
    /\ pc = "sleep"
    /\ events' = Append(events, Event("sleep", "slept", WaitTime(attempt)))
    /\ attempt' = attempt + 1
    /\ pc' = "for"
    /\ UNCHANGED <<max_retries, downloaded, ret>>

RetryIdle ==
    /\ pc = "idle"
    /\ max_retries = 3
    /\ attempt = 0
    /\ downloaded = None
    /\ events = <<>>
    /\ ret = None

RetryInit == RetryIdle /\ TextInit /\ FsIdle

RetryNext ==
    /\ Call \/ ForLoop \/ Fetch \/ Extract \/ Backoff \/ Sleep
    /\ UNCHANGED <<textVars, fsVars>>

SpecRetry == RetryInit /\ [][RetryNext]_vars

(***************************************************************************)
(* Claims about get_website_text_content.                                  *)
(***************************************************************************)
NumOp(op) == Cardinality({i \in DOMAIN events : events[i].op = op})

Running == pc \in {"for", "fetch", "extract", "failed", "sleep"}

\* an event that ends its attempt in failure
IsFailure(e) == e.op \in {"fetch", "extract"} /\ e.res \in {"", Raise}

\* an event that ends its attempt in success
IsSuccess(e) == e.op = "extract" /\ e.res \in ExtractedTexts

AllFetchesEmpty == \A i \in DOMAIN events : events[i].op = "fetch" => events[i].res = ""

\* C1: with max_retries >= 1 and a fetch that returns nothing every time, the
\* call makes exactly max_retries fetches and max_retries - 1 sleeps and then
\* returns None; until then it is never stuck and never exceeds those counts.
C1_ExhaustedReturnsNone ==
    (max_retries >= 1 /\ AllFetchesEmpty /\ pc # "idle") =>
        /\ NumOp("fetch") <= max_retries
        /\ NumOp("sleep") <= max_retries - 1
        /\ NumOp("extract") = 0
        /\ Running => ENABLED (ForLoop \/ Fetch \/ Extract \/ Backoff \/ Sleep)
        /\ pc = "done" =>
             /\ NumOp("fetch") = max_retries
             /\ NumOp("sleep") = max_retries - 1
             /\ ret = None

C1_Witness ==
    /\ pc = "done" /\ max_retries = 3 /\ AllFetchesEmpty
    /\ NumOp("fetch") = 3 /\ NumOp("sleep") = 2 /\ ret = None

\* C2: the call returns the text of the first attempt whose extraction is
\* non-empty and nothing happens after that attempt; an attempt that raises
\* is a failed attempt and the loop goes on; at most max_retries fetches.
C2_FirstSuccessWins ==
    /\ NumOp("fetch") <= max_retries
    /\ \A i \in DOMAIN events :
         /\ events[i].op = "fetch" =>
              events[i].attempt = Cardinality({j \in 1..(i-1) : events[j].op = "fetch"})
         /\ IsSuccess(events[i]) =>
              i = Len(events) /\ pc = "done" /\ ret = events[i].res
         /\ (events[i].res = Raise /\ events[i].attempt < max_retries - 1 /\ pc = "done") =>
              /\ i + 2 <= Len(events)
              /\ events[i+1].op = "sleep"
              /\ events[i+2].op = "fetch" /\ events[i+2].attempt = events[i].attempt + 1
    /\ pc = "done" =>
         /\ ret # Raise
         /\ ret # None => (events # <<>> /\ IsSuccess(events[Len(events)]))
         /\ ret = None => NumOp("fetch") = max_retries

C2_Witness ==
    /\ pc = "done" /\ ret = "text B" /\ NumOp("fetch") = 3
    /\ \E i, j \in DOMAIN events :
         /\ events[i].op = "fetch" /\ events[i].res = Raise
         /\ events[j].op = "extract" /\ events[j].res = ""

\* C3: a sleep follows only a failed attempt that is not the last one, lasts
\* attempt + 1 seconds (so the sleeps of a call last 1, 2, ... in order) and
\* is followed by the next fetch; nothing sleeps after the final attempt or
\* after a success.
C3_LinearBackoff ==
    /\ \A i \in DOMAIN events :
         /\ events[i].op = "sleep" =>
              /\ i > 1
              /\ IsFailure(events[i-1])
              /\ events[i-1].attempt = events[i].attempt
              /\ events[i].attempt < max_retries - 1
              /\ events[i].secs = events[i].attempt + 1
              /\ events[i].secs = Cardinality({j \in 1..i : events[j].op = "sleep"})
              /\ i < Len(events) =>
                   events[i+1].op = "fetch" /\ events[i+1].attempt = events[i].attempt + 1
              /\ pc = "done" => i < Len(events)
         /\ (IsFailure(events[i]) /\ i < Len(events)) =>
              /\ events[i].attempt < max_retries - 1
              /\ events[i+1].op = "sleep"
         /\ (IsFailure(events[i]) /\ events[i].attempt = max_retries - 1) =>
              i = Len(events)
         /\ IsSuccess(events[i]) => i = Len(events)

C3_Witness ==
    /\ pc = "done" /\ max_retries = 4
    /\ \E i, j, k \in DOMAIN events :
         /\ i < j /\ j < k
         /\ events[i].op = "sleep" /\ events[i].secs = 1
         /\ events[j].op = "sleep" /\ events[j].secs = 2
         /\ events[k].op = "sleep" /\ events[k].secs = 3

(***************************************************************************)
(* analyze_text on texts of a few words that hold theme keywords, in       *)
(* either case, inside longer words, repeated, or not at all.              *)
(***************************************************************************)
ThemeVocabulary ==
    {<<"c","o","m","m","u","n","i","t","y">>,
     <<"a","m","e","n","i","t","i","e","s">>,
     <<"G","r","e","e","n">>,
     <<"e","c","o","-","f","r","i","e","n","d","l","y">>,
     <<"t","h","e">>,
     <<"a","r","e","a","s">>,
     <<"r","e","l","a","x","i","n","g">>}

ThemesInit == RetryIdle /\ TextInit /\ FsIdle

TypeThemeWord ==
    /\ Len(PySplit(text)) < MaxThemeWords
    /\ \E w \in ThemeVocabulary : TypeWord(w)

ThemesNext ==
    /\ TypeThemeWord \/ AnalyzeText
    /\ UNCHANGED <<retryVars, fsVars>>

SpecThemes == ThemesInit /\ [][ThemesNext]_vars

(***************************************************************************)
(* Claims about the theme scores of analyze_text.                          *)
(***************************************************************************)
Analysed == call.op = "analyze_text" /\ result.kind = "analysis"

\* the keyword occurs somewhere in the lower-cased text
OccursLowered(kw, t) ==
    \E i \in 1..Len(t) :
        \A j \in 1..Len(kw) : i + j - 1 <= Len(t) /\ LowerChar(t[i + j - 1]) = kw[j]

\* the number of distinct keywords of the theme that occur in the text
DistinctKeywordsFound(th, t) ==
    Cardinality({kw \in Range(Themes[th]) : OccursLowered(kw, t)})

TotalKeywordsFound(t) ==
    SumSeq([i \in DOMAIN ThemeNames |-> DistinctKeywordsFound(ThemeNames[i], t)])

RECURSIVE ProductSeq(_)
ProductSeq(s) == IF s = <<>> THEN 1 ELSE s[1] * ProductSeq(Tail(s))

\* the fractions of the sequence add up to n
SumsTo(fracs, n) ==
    LET D == ProductSeq([i \in DOMAIN fracs |-> fracs[i].den])
    IN SumSeq([i \in DOMAIN fracs |-> fracs[i].num * (D \div fracs[i].den)]) = n * D

\* C5: the theme scores cover exactly the 6 themes; a theme's count is the
\* number of distinct keywords of its list found in the lower-cased text; with
\* a match each score is count / total and the scores sum to 1; with no match
\* every score is 0 and the sum is 0.
C5_ThemeScores ==
    Analysed =>
        LET scores == result.themes
            total == TotalKeywordsFound(text)
            inOrder == [i \in DOMAIN ThemeNames |-> scores[ThemeNames[i]]]
        IN /\ DOMAIN scores = Range(ThemeNames)
           /\ Cardinality(DOMAIN scores) = 6
           /\ \A th \in DOMAIN scores : scores[th].den > 0
           /\ total > 0 =>
                /\ \A th \in DOMAIN scores :
                     scores[th].num * total = DistinctKeywordsFound(th, text) * scores[th].den
                /\ SumsTo(inOrder, 1)
           /\ total = 0 =>
                /\ \A th \in DOMAIN scores : scores[th].num = 0
                /\ SumsTo(inOrder, 0)

C5_Witness ==
    /\ Analysed
    /\ result.themes["sustainability"] = [num |-> 2, den |-> 3]
    /\ result.themes["community"] = [num |-> 1, den |-> 3]
    /\ result.themes["amenities"] = Zero

C6Text == <<"c","o","m","m","u","n","i","t","y"," ","c","o","m","m","u","n","i","t","y"," ","a","m","e","n","i","t","i","e","s">>

FracLess(a, b) == a.num * b.den < b.num * a.den

\* C6 as stated: analyze_text("community community amenities") scores the
\* theme community strictly higher than the theme amenities.
C6_CommunityAboveAmenities ==
    (Analysed /\ text = C6Text) =>
        FracLess(result.themes["amenities"], result.themes["community"])

\* C6 as amended: analyze_text("community community amenities") scores the
\* themes community and amenities equally, 1/2 each (one keyword found for
\* each, however often it occurs), and every other theme 0.
C6_CommunityEqualsAmenities ==
    (Analysed /\ text = C6Text) =>
        /\ result.themes["community"] = [num |-> 1, den |-> 2]
        /\ result.themes["amenities"] = [num |-> 1, den |-> 2]
        /\ \A th \in DOMAIN result.themes \ {"community", "amenities"} :
             result.themes[th] = Zero

C6_Witness ==
    /\ Analysed /\ text = C6Text
    /\ result.top_words[1] = [word |-> <<"c","o","m","m","u","n","i","t","y">>, count |-> 2]

(***************************************************************************)
(* analyze_text on texts of many distinct words: the words w0a, w0b, ...   *)
(* in this order, then a few more words that repeat some of them, a        *)
(* stopword, or a word that is not alphanumeric.                           *)
(***************************************************************************)
BaseWord(i) == <<"w", DigitChars[(i \div 26) + 1], LowerChars[(i % 26) + 1]>>

ExtraVocabulary ==
    {<<"W","0","u">>,
     <<"w","0","v">>,
     <<"T","h","e">>,
     <<"e","c","o","-","f","r","i","e","n","d","l","y">>}

\* how many of the first words are the base words, in their order
BasePrefix(words) ==
    Cardinality({k \in DOMAIN words : \A i \in 1..k : words[i] = BaseWord(i - 1)})

TopWordsInit == RetryIdle /\ TextInit /\ FsIdle

TypeBaseWord ==
    /\ BasePrefix(PySplit(text)) = Len(PySplit(text))
    /\ Len(PySplit(text)) < MaxBaseWords
    /\ TypeWord(BaseWord(Len(PySplit(text))))

TypeExtraWord ==
    /\ Len(PySplit(text)) - BasePrefix(PySplit(text)) < MaxExtraWords
    /\ Len(PySplit(text)) < MaxBaseWords + MaxExtraWords
    /\ \E w \in ExtraVocabulary : TypeWord(w)

TopWordsNext ==
    /\ TypeBaseWord \/ TypeExtraWord \/ AnalyzeText
    /\ UNCHANGED <<retryVars, fsVars>>

SpecTopWords == TopWordsInit /\ [][TopWordsNext]_vars

(***************************************************************************)
(* Claims about the top words of analyze_text.                             *)
(***************************************************************************)
\* the tokens that are alphanumeric and no stopword
KeptTokens(toks) == {w \in Range(toks) : IsAlnum(w) /\ w \notin StopWords}

\* C8: top_words has at most 20 entries; every key is a filtered token (no
\* stopword, alphanumeric), with its number of occurrences, which is >= 1;
\* the entries are in decreasing frequency, equal frequencies in first-seen
\* order; no filtered token left out is more frequent than one included.
C8_TopWords ==
    Analysed =>
        LET toks == WordTokenize(Lower(text))
            kept == KeptTokens(toks)
            freq == [w \in kept |-> Cardinality({i \in DOMAIN toks : toks[i] = w})]
            firstAt == [w \in kept |->
                          CHOOSE i \in DOMAIN toks :
                              toks[i] = w /\ \A j \in 1..(i-1) : toks[j] # w]
            top == result.top_words
            keys == {top[i].word : i \in DOMAIN top}
        IN /\ Len(top) <= 20
           /\ Len(top) = (IF Cardinality(kept) < 20 THEN Cardinality(kept) ELSE 20)
           /\ Cardinality(keys) = Len(top)
           /\ \A i \in DOMAIN top :
                /\ top[i].word \in kept
                /\ top[i].count = freq[top[i].word]
                /\ top[i].count >= 1
           /\ \A i \in DOMAIN top : \A j \in DOMAIN top :
                i < j => \/ top[i].count > top[j].count
                         \/ /\ top[i].count = top[j].count
                            /\ firstAt[top[i].word] < firstAt[top[j].word]
           /\ \A w \in kept \ keys : \A i \in DOMAIN top : freq[w] <= top[i].count

C8_Witness ==
    /\ Analysed
    /\ Cardinality(KeptTokens(WordTokenize(Lower(text)))) > 20
    /\ Len(result.top_words) = 20
    /\ result.top_words[1] = [word |-> BaseWord(21), count |-> 2]
    /\ \E w \in StopWords : w \in Range(WordTokenize(Lower(text)))
    /\ BaseWord(19) \notin {result.top_words[i].word : i \in DOMAIN result.top_words}

(***************************************************************************)
(* search_content on texts of a few words, one of them longer than the     *)
(* context radius, with terms that match in another case, inside a longer  *)
(* word, next to punctuation, overlapping themselves, or not at all.       *)
(***************************************************************************)
Pad == [i \in 1..PadLen |-> "z"]

SearchVocabulary ==
    {<<"C","a","t">>,
     <<"c","o","n","c","a","t">>,
     <<"a">>,
     <<"c","+","+">>} \cup {Pad}

SearchTerms ==
    {<<"c","a","t">>,
     <<"a"," ","a">>,
     <<"c","+","+">>,
     <<"d","o","g">>} \cup {<<>>}

SearchInit == RetryIdle /\ TextInit /\ FsIdle

TypeSearchWord ==
    /\ Len(PySplit(text)) < MaxSearchWords
    /\ \E w \in SearchVocabulary : TypeWord(w)

SearchContent ==
    /\ \E term \in SearchTerms :
         /\ result' = search_content(text, term)
         /\ call' = [NoCall EXCEPT !.op = "search_content", !.term = term]
    /\ UNCHANGED text

SearchNext ==
    /\ TypeSearchWord \/ SearchContent
    /\ UNCHANGED <<retryVars, fsVars>>

SpecSearch == SearchInit /\ [][SearchNext]_vars

(***************************************************************************)
(* Claims about search_content.                                            *)
(***************************************************************************)
\* the term stands at offset p of the text, in any case, as a whole word:
\* no word character (letter, digit, underscore) right before it or after it
WholeWordAt(t, term, p) ==
    /\ p >= 0 /\ p + Len(term) <= Len(t)
    /\ \A j \in 1..Len(term) : LowerChar(t[p + j]) = LowerChar(term[j])
    /\ p = 0 \/ ~IsWordChar(t[p])
    /\ p + Len(term) = Len(t) \/ ~IsWordChar(t[p + Len(term) + 1])

SearchedNonEmpty == call.op = "search_content" /\ text # <<>> /\ call.term # <<>>

\* the contexts are in match order, without overlap, each with the start
\* offset of its match as position and
\* text[max(0, start - 100) : min(len(text), end + 100)] as context
ContextsOfMatches(ctx, n) ==
    /\ \A i \in DOMAIN ctx : \A j \in DOMAIN ctx :
         i < j => ctx[i].position + n <= ctx[j].position
    /\ \A i \in DOMAIN ctx :
         LET lo == Max(0, ctx[i].position - 100)
             hi == Min(Len(text), ctx[i].position + n + 100)
         IN /\ Len(ctx[i].context) = hi - lo
            /\ Len(ctx[i].context) <= Len(text)
            /\ \A k \in 1..(hi - lo) : ctx[i].context[k] = text[lo + k]

\* C7: for non-empty text and term, a term that is not present (as a whole
\* word, in any case) gives a message, no error; a term present N >= 1 times
\* gives total_matches = N and N contexts in match order, each with the start
\* offset of its match as position and the slice of the text from
\* max(0, start - 100) to min(len(text), end + 100) as context.
C7_SearchFindsOccurrences ==
    SearchedNonEmpty =>
        LET n == Len(call.term)
            occ == {p \in 0..(Len(text) - n) : WholeWordAt(text, call.term, p)}
            disjoint == \A p \in occ : \A q \in occ : p < q => p + n <= q
        IN /\ result.kind \in {"message", "matches"}
           /\ occ = {} => result.kind = "message"
           /\ occ # {} =>
                /\ result.kind = "matches"
                /\ result.total_matches = Len(result.contexts)
                /\ disjoint => result.total_matches = Cardinality(occ)
                /\ {result.contexts[i].position : i \in DOMAIN result.contexts} \subseteq occ
                /\ ContextsOfMatches(result.contexts, n)

\* What search_content does find: the offsets where the term stands, in any
\* case, with a word boundary (\b: a word character on exactly one side) at
\* both of its ends, from left to right without overlap.  For a term that
\* begins and ends with a word character these are its whole-word occurrences.
BoundedAt(t, term, p) ==
    LET n == Len(term)
        wordAt(k) == k >= 1 /\ k <= Len(t) /\ IsWordChar(t[k])
    IN /\ p >= 0 /\ p + n <= Len(t)
       /\ \A j \in 1..n : LowerChar(t[p + j]) = LowerChar(term[j])
       /\ wordAt(p) # wordAt(p + 1)
       /\ wordAt(p + n) # wordAt(p + n + 1)

SearchFindsBoundedMatches ==
    SearchedNonEmpty =>
        LET n == Len(call.term)
            occ == {p \in 0..(Len(text) - n) : BoundedAt(text, call.term, p)}
            disjoint == \A p \in occ : \A q \in occ : p < q => p + n <= q
        IN /\ result.kind \in {"message", "matches"}
           /\ result.kind = "message" <=> occ = {}
           /\ result.kind = "message" => result.message = NoMatchMessage(call.term)
           /\ result.kind = "matches" =>
                LET ctx == result.contexts
                    at == {ctx[i].position : i \in DOMAIN ctx}
                IN /\ result.total_matches = Len(ctx)
                   /\ result.total_matches >= 1
                   /\ disjoint => result.total_matches = Cardinality(occ)
                   /\ at \subseteq occ
                   /\ \A q \in occ \ at :
                        \E i \in DOMAIN ctx : ctx[i].position < q /\ q < ctx[i].position + n
                   /\ ContextsOfMatches(ctx, n)
                   /\ (IsWordChar(call.term[1]) /\ IsWordChar(call.term[n])) =>
                        occ = {p \in 0..(Len(text) - n) : WholeWordAt(text, call.term, p)}

\* a search that finds two matches, the first with a full context window
SearchTwoMatches ==
    /\ call.op = "search_content" /\ call.term = <<"c","a","t">>
    /\ result.kind = "matches" /\ result.total_matches = 2
    /\ result.contexts[1].position > 100
    /\ Len(result.contexts[1].context) = 203
    /\ Len(result.contexts[2].context) < 203

(***************************************************************************)
(* get_text_preview on texts of a few characters, with limits below, at    *)
(* and above their length, zero and negative.                              *)
(***************************************************************************)
PreviewChars == {"a", "b"}

PreviewInit == RetryIdle /\ TextInit /\ FsIdle

TypeChar ==
    /\ call = NoCall
    /\ Len(text) < MaxPreviewLen
    /\ \E c \in PreviewChars : text' = Append(text, c)
    /\ UNCHANGED <<call, result>>

GetTextPreview ==
    /\ \E max_length \in (0 - MaxNegativeLength)..(MaxPreviewLen + 1) :
         /\ result' = Returned(get_text_preview(text, max_length))
         /\ call' = [NoCall EXCEPT !.op = "get_text_preview", !.max_length = max_length]
    /\ UNCHANGED text

PreviewNext ==
    /\ TypeChar \/ GetTextPreview
    /\ UNCHANGED <<retryVars, fsVars>>

SpecPreview == PreviewInit /\ [][PreviewNext]_vars

(***************************************************************************)
(* Claims about get_text_preview.                                          *)
(***************************************************************************)
Previewed == call.op = "get_text_preview"

\* the value is the first n characters of the text and then the marker
IsTruncatedTo(value, n) ==
    /\ Len(value) = n + 3
    /\ \A k \in 1..n : value[k] = text[k]
    /\ \A k \in 1..3 : value[n + k] = "."

\* C9 as stated: the placeholder for an empty text, the text itself when
\* len(text) <= max_length, else exactly the first max_length characters and
\* the marker, for every max_length.
C9_PreviewEveryLength ==
    Previewed =>
        /\ text = <<>> => result.value = NoContentAvailable
        /\ (text # <<>> /\ Len(text) <= call.max_length) => result.value = text
        /\ (text # <<>> /\ Len(text) > call.max_length) =>
              IsTruncatedTo(result.value, call.max_length)

\* C9 as amended: as stated for every max_length >= 0; for max_length < 0 a
\* text that is not empty is cut to all but its last -max_length characters
\* (to nothing if it has no more than that), followed by the marker.
C9_PreviewSlice ==
    Previewed =>
        /\ result.kind = "returned"
        /\ text = <<>> => result.value = NoContentAvailable
        /\ (text # <<>> /\ Len(text) <= call.max_length) => result.value = text
        /\ (text # <<>> /\ Len(text) > call.max_length /\ call.max_length >= 0) =>
              IsTruncatedTo(result.value, call.max_length)
        /\ (text # <<>> /\ call.max_length < 0) =>
              IsTruncatedTo(result.value, Max(Len(text) + call.max_length, 0))

C9_Witness ==
    /\ Previewed /\ Len(text) = 10 /\ call.max_length = 5
    /\ Len(result.value) = 8
    /\ "a" \in Range(text) /\ "b" \in Range(text)

(***************************************************************************)
(* save_text_to_file, called again and again while the clock advances; the *)
(* output directory may be missing, be there, or be a regular file.        *)
(***************************************************************************)
SaveTexts == {<<>>, <<"h","i">>, <<"y","o">>, <<Surrogate>>}

\* an empty filename stands for None and for "": both take the default
SaveFilenames == {<<>>, <<"a",".","t","x","t">>, <<"/","a","b","s",".","t","x","t">>}

SaveInit ==
    /\ RetryIdle /\ TextInit
    /\ now = 0
    /\ out_dir \in {"absent", "dir", "file"}
    /\ files = <<>>

Tick ==
    /\ now < MaxTime
    /\ now' = now + 1
    /\ UNCHANGED <<out_dir, files, textVars>>

SaveCall ==
    \E t \in SaveTexts : \E filename \in SaveFilenames : \E open_fails \in BOOLEAN :
        SaveTextToFile(t, filename, open_fails)

SaveNext ==
    /\ Tick \/ SaveCall
    /\ UNCHANGED retryVars

SpecSave == SaveInit /\ [][SaveNext]_vars

(***************************************************************************)
(* Claims about save_text_to_file and about what the operations raise.     *)
(***************************************************************************)
Saved == call.op = "save_text_to_file"

\* a step that is a call of save_text_to_file (the clock stands still)
SaveStep == call'.op = "save_text_to_file" /\ now' = now

\* C10: with empty text the call returns the placeholder and leaves the file
\* system as it was; with non-empty text, when the call returns, the output
\* directory exists, the file at the returned path holds exactly the text,
\* no other file changed, and the path is the output directory joined with
\* the given filename, or with the filename made from the current time when
\* none is given; a call that makes the same time-based filename as the call
\* before it returns the same path, and the file then holds the later text.
C10_SaveFrame ==
    [][SaveStep =>
        /\ call'.text = <<>> =>
             /\ result' = Returned(NoContentToSave)
             /\ out_dir' = out_dir
             /\ files' = files
        /\ (call'.text # <<>> /\ result'.kind = "returned") =>
             LET path == result'.value
             IN /\ out_dir' = "dir"
                /\ path \in DOMAIN files'
                /\ files'[path] = call'.text
                /\ DOMAIN files' = DOMAIN files \cup {path}
                /\ \A p \in DOMAIN files \ {path} : files'[p] = files[p]
                /\ (call'.filename # <<>> /\ call'.filename[1] # "/") =>
                     path = OutputDir \o <<"/">> \o call'.filename
                /\ (call'.filename # <<>> /\ call'.filename[1] = "/") =>
                     path = call'.filename
                /\ call'.filename = <<>> =>
                     path = OutputDir \o <<"/">> \o DefaultFilename(now)
                /\ (call'.filename = <<>> /\ Saved /\ call.filename = <<>>
                      /\ call.time = call'.time
                      /\ call.text # <<>> /\ result.kind = "returned") =>
                     /\ path = result.value
                     /\ path \in DOMAIN files
                     /\ files'[path] = call'.text
    ]_vars

C10_Witness ==
    /\ Saved /\ call.filename = <<>> /\ call.text = <<"y","o">>
    /\ result.kind = "returned"
    /\ call.time = 1
    /\ result.value = OutputDir \o <<"/">> \o DefaultFilename(1)
    /\ files[result.value] = <<"y","o">>
    /\ call.replaced = << <<"h","i">> >>

\* C4: no public operation raises to its caller, whatever a collaborator
\* (tokenizer, network fetch, parser, file system) raises during the call.
C4_NeverRaises ==
    /\ result.kind # "raised"
    /\ ret # Raise

=============================================================================
